---- MODULE Spec2Model ----
(***************************************************************************)
(* Shape and index bookkeeping of models/bottleneck.py: the Unet2          *)
(* encoder/decoder with its two forward modes ('encode' / 'decode'), and   *)
(* the Bottleneck orchestrator that encodes every consecutive frame pair,  *)
(* runs one LSTM pass over the stacked bottleneck features, decodes every  *)
(* time step with that step's history stack and warps images and labels.   *)
(*                                                                         *)
(* A tensor is abstracted to its channel count, its spatial shape (one     *)
(* size per spatial axis) and the index of the frame pair its values were  *)
(* computed from; weights and floating-point values are not modelled.      *)
(***************************************************************************)
EXTENDS Integers, Sequences, FiniteSets, TLC

VARIABLES
    args,        \* the arguments Unet2 is constructed with
    unet,        \* the constructed Unet2 (or the error of its construction)
    pc,          \* where the Unet2 under test stands
    enc,         \* what forward(x, 'encode') returned or raised
    given,       \* the x_history_ handed to forward(x, 'decode', x_history_)
    dec          \* what that decode returned or raised, and what it left of the stack

uvars == <<args, unet, pc, enc, given, dec>>

VARIABLES
    bottleneck,   \* the constructed Bottleneck: image_size, unet, input_size, hidden_size
    images,       \* the images tensor: its frame count n, batch size bs, spatial shape
    labels,       \* whether the running forward call was given labels
    bpc,          \* where forward stands
    error,        \* the exception forward raised, "" when none
    X,            \* the bottleneck features encoded so far
    X_history,    \* the history stacks, one per encoded pair
    encoder_out,  \* the stacked features, once the assertions passed
    seed,         \* h_0 and c_0 as drawn for the running call
    lstm_out,     \* the recurrent outputs
    Y,            \* the flow fields decoded so far
    moved_images, \* the warped images
    results       \* what the calls made so far returned, in order

bvars == <<bottleneck, images, labels, bpc, error, X, X_history, encoder_out,
           seed, lstm_out, Y, moved_images, results>>

vars == <<uvars, bvars>>

\* ------------------------------------------------------------- bounds
MaxEncLen == 2
MaxDecLen == 3
MaxSize == 9
MaxFrames == 41
MaxBatch == 2
MaxCalls == 2

\* channel widths, pooling factors and convolutions per level tried
Widths == {1, 2}
PoolFactors == {2, 3}
ConvsPerLevel == {1, 2}

\* ------------------------------------------------------------ helpers
Min(a, b) == IF a < b THEN a ELSE b

\* s[:k]
Take(s, k) == SubSeq(s, 1, Min(k, Len(s)))

\* s[k:]
Drop(s, k) == SubSeq(s, Min(k, Len(s)) + 1, Len(s))

Last(s) == s[Len(s)]

Front(s) == SubSeq(s, 1, Len(s) - 1)

SeqsUpTo(S, n) == UNION {[1..k -> S] : k \in 0..n}

RECURSIVE Pow(_, _)
Pow(b, e) == IF e = 0 THEN 1 ELSE b * Pow(b, e - 1)

\* Optional values: <<>> is None, <<v>> is the value v.
None == <<>>

Some(v) == <<v>>

\* ------------------------------------------------- Unet2.__init__
FlipIdentity(s) == s

\* np.flip
Flip(s) == [i \in 1..Len(s) |-> s[Len(s) + 1 - i]]

\* np.repeat(s, k): every element k times, consecutively
Repeat(s, k) == [i \in 1..(Len(s) * k) |-> s[((i - 1) \div k) + 1]]

\* np.round(nb_features * feat_mult ** np.arange(nb_levels)).astype(int)
\* for integer feat_mult, and the two lists built from it
DeriveFeatures(nb_features, feat_mult, nb_levels, nb_conv_per_level) ==
    LET feats == [k \in 1..nb_levels |-> nb_features * Pow(feat_mult, k - 1)]
    IN  <<Repeat(Front(feats), nb_conv_per_level),
          Repeat(Flip(feats), nb_conv_per_level)>>

\* The failure of the nb_features / nb_levels argument check, "" when none.
FeatureArgError(a) ==
    IF a.int_features
    THEN IF a.nb_levels = None THEN "ValueError" ELSE ""
    ELSE IF a.nb_levels # None THEN "ValueError" ELSE ""

\* nb_features as the pair [enc_nf, dec_nf]
NbFeatures(a) ==
    IF a.int_features
    THEN DeriveFeatures(a.nb_features, a.feat_mult, a.nb_levels[1],
                        a.nb_conv_per_level)
    ELSE <<a.enc_nf, a.dec_nf>>

\* self.nb_levels = int(nb_dec_convs / nb_conv_per_level) + 1
NbLevels(enc_nf, nb_conv_per_level) == (Len(enc_nf) \div nb_conv_per_level) + 1

\* if isinstance(max_pool, int): max_pool = [max_pool] * self.nb_levels
MaxPoolList(a, nb_levels) ==
    IF a.max_pool_is_int
    THEN [i \in 1..nb_levels |-> a.max_pool_int]
    ELSE a.max_pool_list

\* The ConvBlocks of one level: widths nfs, fed prev_nf channels.
ConvChain(prev_nf, nfs) ==
    [i \in 1..Len(nfs) |->
        [in_channels |-> IF i = 1 THEN prev_nf ELSE nfs[i - 1],
         out_channels |-> nfs[i]]]

\* Whether decoder level `level` (0-based) upsamples and concatenates.
Concatenates(half_res, nb_levels, level) ==
    ~half_res \/ level < nb_levels - 2

\* prev_nf after encoder level k has been configured (k = 0: infeats);
\* the list encoder_nfs before it is flipped is EncoderNfs.
EncoderNfs(infeats, enc_nf, nb_conv_per_level, nb_levels) ==
    [k \in 1..nb_levels |->
        IF k = 1 THEN infeats ELSE enc_nf[(k - 1) * nb_conv_per_level]]

\* The object Unet2.__init__ builds from the arguments a, with err = "" ; or
\* the exception it raises, in err.
Unet2Init(a) ==
    LET failed(e) == [err |-> e, half_res |-> a.half_res, nb_levels |-> 0,
                      pooling |-> <<>>, upsampling |-> <<>>, encoder |-> <<>>,
                      decoder |-> <<>>, remaining |-> <<>>, final_nf |-> 0]
    IN
    IF ~(Len(a.inshape) \in {1, 2, 3}) THEN failed("AssertionError")
    ELSE IF FeatureArgError(a) # "" THEN failed(FeatureArgError(a))
    ELSE
    LET npc == a.nb_conv_per_level
        enc_nf == NbFeatures(a)[1]
        nb_dec_convs == Len(enc_nf)
        final_convs == Drop(NbFeatures(a)[2], nb_dec_convs)
        dec_nf == Take(NbFeatures(a)[2], nb_dec_convs)
        nb_levels == NbLevels(enc_nf, npc)
        max_pool == MaxPoolList(a, nb_levels)
        encoder_nfs == EncoderNfs(a.infeats, enc_nf, npc, nb_levels)
        encoder == [l \in 1..(nb_levels - 1) |->
                       ConvChain(encoder_nfs[l],
                                 SubSeq(enc_nf, (l - 1) * npc + 1, l * npc))]
        flipped == Flip(encoder_nfs)
        \* prev_nf when decoder level l (1-based) is about to be configured
        prev_nf[l \in 1..nb_levels] ==
            IF l = 1 THEN encoder_nfs[nb_levels]
            ELSE IF Concatenates(a.half_res, nb_levels, l - 2)
                 THEN dec_nf[(l - 1) * npc] + flipped[l - 1]
                 ELSE dec_nf[(l - 1) * npc]
        decoder == [l \in 1..(nb_levels - 1) |->
                       ConvChain(prev_nf[l],
                                 SubSeq(dec_nf, (l - 1) * npc + 1, l * npc))]
        remaining == ConvChain(prev_nf[nb_levels], final_convs)
    IN
    IF Len(dec_nf) < (nb_levels - 1) * npc THEN failed("IndexError")
    ELSE [err |-> "", half_res |-> a.half_res, nb_levels |-> nb_levels,
          pooling |-> max_pool, upsampling |-> max_pool,
          encoder |-> encoder, decoder |-> decoder, remaining |-> remaining,
          final_nf |-> IF final_convs = <<>> THEN prev_nf[nb_levels]
                       ELSE Last(final_convs)]

\* ------------------------------------------------- layers
\* A step's outcome: st = "ok" and the tensor x, or the exception in st.
\* ConvBlock.forward: Conv(in_channels, out_channels, 3, stride 1, padding 1)
\* keeps the spatial shape and rejects any other channel count.
ConvBlock(conv, x) ==
    IF x.ch # conv.in_channels
    THEN [st |-> "RuntimeError: channels", x |-> x]
    ELSE [st |-> "ok", x |-> [x EXCEPT !.ch = conv.out_channels]]

RECURSIVE ApplyConvs(_, _, _)
\* for conv in convs: x = conv(x), from the i-th block on
ApplyConvs(convs, i, x) ==
    IF i > Len(convs) THEN [st |-> "ok", x |-> x]
    ELSE LET r == ConvBlock(convs[i], x)
         IN  IF r.st # "ok" THEN r ELSE ApplyConvs(convs, i + 1, r.x)

\* nn.MaxPool<n>d(s): kernel s, stride s, no padding, ceil_mode off: each axis
\* becomes floor((size - s) / s) + 1, and an output size of 0 is an error.
MaxPooling(s, x) ==
    IF \E d \in 1..Len(x.shape) : x.shape[d] < s
    THEN [st |-> "RuntimeError: output size is too small", x |-> x]
    ELSE [st |-> "ok",
          x |-> [x EXCEPT !.shape =
                    [d \in 1..Len(x.shape) |-> ((x.shape[d] - s) \div s) + 1]]]

\* nn.Upsample(scale_factor=s, mode='nearest'): each axis becomes size * s
Upsample(s, x) ==
    [x EXCEPT !.shape = [d \in 1..Len(x.shape) |-> x.shape[d] * s]]

\* ------------------------------------------------- Unet2.forward
\* A history entry: the tensor and the place it was recorded at
\* (lvl = -1: the input of encode; lvl = k: encoder level k, before pooling).
Entry(x, lvl) == [ch |-> x.ch, shape |-> x.shape, id |-> x.id, lvl |-> lvl]

RECURSIVE EncodeLevels(_, _, _, _)
\* The loop of task 'encode' from encoder level `level` (0-based) on.
EncodeLevels(net, level, x, x_history) ==
    IF level >= Len(net.encoder)
    THEN [st |-> "ok", x |-> x, x_history |-> x_history]
    ELSE LET c == ApplyConvs(net.encoder[level + 1], 1, x)
         IN  IF c.st # "ok"
             THEN [st |-> c.st, x |-> c.x, x_history |-> x_history]
             ELSE IF level + 1 > Len(net.pooling)
             THEN [st |-> "IndexError", x |-> c.x,
                   x_history |-> Append(x_history, Entry(c.x, level))]
             ELSE LET p == MaxPooling(net.pooling[level + 1], c.x)
                      h == Append(x_history, Entry(c.x, level))
                  IN  IF p.st # "ok"
                      THEN [st |-> p.st, x |-> p.x, x_history |-> h]
                      ELSE EncodeLevels(net, level + 1, p.x, h)

EncodeWithoutInput(net, x) == EncodeLevels(net, 0, x, <<>>)

\* forward(x, 'encode'): x_history = [x], then the levels; returns x, x_history
Encode(net, x) == EncodeLevels(net, 0, x, <<Entry(x, -1)>>)

\* self.upsampling[level]: the factor decoder level `level` (0-based) upsamples by.
UpsamplingAt(net, level) == net.upsampling[level + 1]

RECURSIVE DecodeLevels(_, _, _, _, _)
\* The loop of task 'decode' from decoder level `level` (0-based) on. cats
\* records every concatenation: the level, the factor upsampled by, the
\* upsampled tensor and the entry popped.
DecodeLevels(net, level, x, x_history, cats) ==
    IF level >= Len(net.decoder)
    THEN [st |-> "ok", x |-> x, x_history |-> x_history, cats |-> cats]
    ELSE LET c == ApplyConvs(net.decoder[level + 1], 1, x)
             fail(e, t, h) == [st |-> e, x |-> t, x_history |-> h, cats |-> cats]
         IN  IF c.st # "ok" THEN fail(c.st, c.x, x_history)
             ELSE IF ~Concatenates(net.half_res, net.nb_levels, level)
             THEN DecodeLevels(net, level + 1, c.x, x_history, cats)
             ELSE IF level + 1 > Len(net.upsampling)
             THEN fail("IndexError", c.x, x_history)
             ELSE LET u == Upsample(UpsamplingAt(net, level), c.x)
                  IN  IF x_history = <<>>
                      THEN fail("IndexError: pop from empty list", u, x_history)
                      ELSE LET e == Last(x_history)
                               h == Front(x_history)
                           IN  IF e.shape # u.shape
                               THEN fail("RuntimeError: sizes of tensors must match",
                                         u, h)
                               ELSE DecodeLevels(net, level + 1,
                                        [u EXCEPT !.ch = u.ch + e.ch], h,
                                        Append(cats,
                                            [level |-> level,
                                             factor |-> UpsamplingAt(net, level),
                                             shape |-> u.shape, entry |-> e]))

DecodeNoneAsEmpty(net, x, x_history_) ==
    LET d == DecodeLevels(net, 0, x,
                          IF x_history_ = None THEN <<>> ELSE x_history_[1], <<>>)
    IN  IF d.st # "ok" THEN d
        ELSE LET r == ApplyConvs(net.remaining, 1, d.x)
             IN  [st |-> r.st, x |-> r.x, x_history |-> d.x_history,
                  cats |-> d.cats]

\* forward(x, 'decode', x_history_): the assertion, the levels, the remaining
\* convolutions. x_history_ is None or Some(list); the list is popped in place,
\* so the result carries what is left of it.
Decode(net, x, x_history_) ==
    IF x_history_ = None
    THEN [st |-> "AssertionError", x |-> x, x_history |-> <<>>, cats |-> <<>>]
    ELSE LET d == DecodeLevels(net, 0, x, x_history_[1], <<>>)
         IN  IF d.st # "ok" THEN d
             ELSE LET r == ApplyConvs(net.remaining, 1, d.x)
                  IN  [st |-> r.st, x |-> r.x, x_history |-> d.x_history,
                       cats |-> d.cats]

\* ------------------------------------------------- Unet2 under test
\* Spatial shapes tried: every 1-D size, and 2-D shapes of one fixed height.
Shapes ==
    {<<w>> : w \in 1..MaxSize} \cup {<<w, MaxSize - 3>> : w \in 1..MaxSize}

\* The arguments besides max_pool: explicit width lists, or an integer width
\* with a level count; and the two combinations __init__ rejects.
FeatureArgs ==
    [int_features : {FALSE}, enc_nf : SeqsUpTo(Widths, MaxEncLen),
     dec_nf : SeqsUpTo(Widths, MaxDecLen), nb_features : {0}, feat_mult : {1},
     nb_levels : {None}]
    \cup
    [int_features : {TRUE}, enc_nf : {<<>>}, dec_nf : {<<>>},
     nb_features : Widths, feat_mult : {1, 2},
     nb_levels : {None} \cup {Some(k) : k \in 1..(MaxEncLen + 1)}]
    \cup
    [int_features : {FALSE}, enc_nf : {<<1>>}, dec_nf : {<<1>>},
     nb_features : {0}, feat_mult : {1}, nb_levels : {Some(2)}]

\* nb_levels as __init__ will compute it (1 when the arguments are rejected)
ArgLevels(f, npc) ==
    IF f.int_features /\ f.nb_levels = None THEN 1
    ELSE IF f.int_features THEN f.nb_levels[1]
    ELSE NbLevels(f.enc_nf, npc)

\* max_pool: one integer, or a list with one factor per pooling level, or per
\* level as the integer form builds it (nb_levels factors, the last one unused)
MaxPoolArgs(nb_levels) ==
    [is_int : {TRUE}, int : PoolFactors, list : {<<>>}]
    \cup [is_int : {FALSE}, int : {0},
          list : [1..nb_levels -> PoolFactors]
                 \cup [1..(nb_levels - 1) -> PoolFactors]]

UInit ==
    /\ \E shape \in Shapes, infeats \in Widths, half_res \in BOOLEAN,
          f \in FeatureArgs, npc \in ConvsPerLevel :
          \E mp \in MaxPoolArgs(ArgLevels(f, npc)) :
             args = [inshape |-> shape, infeats |-> infeats,
                     int_features |-> f.int_features, enc_nf |-> f.enc_nf,
                     dec_nf |-> f.dec_nf, nb_features |-> f.nb_features,
                     feat_mult |-> f.feat_mult, nb_levels |-> f.nb_levels,
                     nb_conv_per_level |-> npc, max_pool_is_int |-> mp.is_int,
                     max_pool_int |-> mp.int, max_pool_list |-> mp.list,
                     half_res |-> half_res]
    /\ unet = <<>>
    /\ pc = "new"
    /\ enc = <<>>
    /\ given = None
    /\ dec = <<>>
    /\ bottleneck = <<>>
    /\ images = <<>>
    /\ labels = FALSE
    /\ bpc = "unused"
    /\ error = ""
    /\ X = <<>>
    /\ X_history = <<>>
    /\ encoder_out = <<>>
    /\ seed = <<>>
    /\ lstm_out = <<>>
    /\ Y = <<>>
    /\ moved_images = <<>>
    /\ results = <<>>

\* Unet2(...)
Construct ==
    /\ pc = "new"
    /\ unet' = Unet2Init(args)
    /\ pc' = IF unet'.err = "" THEN "built" ELSE "config_error"
    /\ UNCHANGED <<args, enc, given, dec, bvars>>

\* The tensor handed to encode: infeats channels, the configured shape.
Input == [ch |-> args.infeats, shape |-> args.inshape, id |-> <<0, 1>>]

\* unet(x, 'encode')
CallEncode ==
    /\ pc = "built"
    /\ enc' = Encode(unet, Input)
    /\ pc' = IF enc'.st = "ok" THEN "encoded" ELSE "encode_raised"
    /\ UNCHANGED <<args, unet, given, dec, bvars>>

\* The stacks a caller may hand to decode: none, the one encode returned,
\* that one with entries missing at its bottom, or with one entry more.
HistoryArgs(x_history) ==
    {None} \cup {Some(Drop(x_history, k)) : k \in 0..Len(x_history)}
           \cup {Some(<<Entry(Input, -1)>> \o x_history)}

\* unet(x, 'decode', x_history_) on the bottleneck feature encode returned
CallDecode ==
    /\ pc = "encoded"
    /\ \E h \in HistoryArgs(enc.x_history) :
          /\ given' = h
          /\ dec' = Decode(unet, enc.x, h)
    /\ pc' = IF dec'.st = "ok" THEN "decoded" ELSE "decode_raised"
    /\ UNCHANGED <<args, unet, enc, bvars>>

UNext == Construct \/ CallEncode \/ CallDecode

Spec == UInit /\ [][UNext]_vars

\* ------------------------------------------------- Bottleneck.__init__
BottleneckEncNf == <<16, 32, 32, 32, 64>>

BottleneckDecNf == <<64, 32, 32, 32, 32, 16, 16, 8, 2>>

\* assert T == 39
RequiredT == 39

\* Bottleneck(image_size): the Unet2 on frame pairs, and the LSTM's sizes
BottleneckInit(image_size) ==
    LET C == Last(BottleneckEncNf)
        W == image_size[1] \div Pow(2, Len(BottleneckEncNf))
        H == image_size[2] \div Pow(2, Len(BottleneckEncNf))
    IN  [image_size |-> image_size,
         unet |-> Unet2Init([inshape |-> image_size, infeats |-> 2,
                             int_features |-> FALSE,
                             enc_nf |-> BottleneckEncNf,
                             dec_nf |-> BottleneckDecNf,
                             nb_features |-> 0, feat_mult |-> 1,
                             nb_levels |-> None, nb_conv_per_level |-> 1,
                             max_pool_is_int |-> TRUE, max_pool_int |-> 2,
                             max_pool_list |-> <<>>, half_res |-> FALSE]),
         input_size |-> C * W * H,
         hidden_size |-> C * W * H]

\* ------------------------------------------------- Bottleneck.forward
\* images[i] / labels[i] (0-based): one channel, the batch's spatial shape
Frame(kind, i) == [ch |-> 1, shape |-> images.shape, id |-> <<kind, i>>]

\* torch.cat([src, trg], dim=1)
CatPair(src, trg) ==
    [ch |-> src.ch + trg.ch, shape |-> src.shape, id |-> <<src.id, trg.id>>]

\* len(images[:-1]) = len(images[1:]): the number of frame pairs zipped
NbPairs == IF images.n = 0 THEN 0 ELSE images.n - 1

\* The failure of lines 36-40 on the features X of a batch of size bs, "" when
\* none: torch.cat of no tensors, then the two assertions.
StackCheckNoBatch(features, bs) ==
    IF features = <<>> THEN "RuntimeError: torch.cat of an empty list"
    ELSE IF Len(features) # RequiredT THEN "AssertionError: T" ELSE ""

StackCheckAtMost(features, bs) ==
    IF features = <<>> THEN "RuntimeError: torch.cat of an empty list"
    ELSE IF bs # 1 THEN "AssertionError: bs"
    ELSE IF Len(features) > RequiredT THEN "AssertionError: T" ELSE ""

StackCheck(features, bs) ==
    IF features = <<>> THEN "RuntimeError: torch.cat of an empty list"
    ELSE IF bs # 1 THEN "AssertionError: bs"
    ELSE IF Len(features) # RequiredT THEN "AssertionError: T" ELSE ""

HistoryReversed(histories, i) == histories[Len(histories) - i]

\* The stack decode step i (0-based) is given: X_history[i]

HistoryFor(histories, i) == histories[i + 1]

\* self.lstm on encoder_out.view(T, bs, -1) with (h_0, c_0), viewed back as
\* (T, bs, C, W, H): output step t is the state after input step t, reached
\* from the initial state (h_0, c_0) through the steps before. The LSTM rejects an input whose feature size is not
\* input_size.
Lstm(b, features, h_0, c_0) ==
    LET x == features[1]
        size == x.ch * x.shape[1] * x.shape[2]
    IN  IF size # b.input_size
        THEN [st |-> "RuntimeError: input.size(-1) must be equal to input_size",
              out |-> <<>>]
        ELSE [st |-> "ok",
              out |-> [t \in 1..Len(features) |->
                         [ch |-> features[t].ch, shape |-> features[t].shape,
                          id |-> [t |-> t - 1,
                                  input |-> features[t].id,
                                  seed |-> <<h_0, c_0>>]]]]

\* self.spatial_transformer(src, flow): src resampled along flow
SpatialTransformer(src, flow) ==
    [ch |-> src.ch, shape |-> src.shape, id |-> [src |-> src.id, flow |-> flow.id]]

\* [self.spatial_transformer(src, flow) for src, flow in zip(frames[:-1], flow)]
WarpAll(kind, flow) ==
    [i \in 1..Min(NbPairs, Len(flow)) |->
        SpatialTransformer(Frame(kind, i - 1), flow[i])]

ResultLabelsFirst(moved, flow, has_labels) ==
    IF has_labels THEN <<WarpAll("label", flow), moved, flow>>
    ELSE <<moved, flow>>

\* What forward returns (lines 57-62)
ForwardResult(moved, flow, has_labels) ==
    IF has_labels THEN <<moved, WarpAll("label", flow), flow>>
    ELSE <<moved, flow>>

\* image_size tried: one divisible by 2^5 on both axes, one not
ImageSizes == {<<64, 32>>, <<33, 32>>}

\* values torch.randn may draw for h_0 and for c_0
Seeds == {0, 1}

BInit ==
    /\ args = <<>>
    /\ unet = <<>>
    /\ pc = "unused"
    /\ enc = <<>>
    /\ given = None
    /\ dec = <<>>
    /\ \E size \in ImageSizes, n \in 1..MaxFrames, bs \in 1..MaxBatch :
          /\ bottleneck = BottleneckInit(size)
          /\ images = [n |-> n, bs |-> bs, shape |-> size]
    /\ labels = FALSE
    /\ bpc = "idle"
    /\ error = ""
    /\ X = <<>>
    /\ X_history = <<>>
    /\ encoder_out = <<>>
    /\ seed = <<>>
    /\ lstm_out = <<>>
    /\ Y = <<>>
    /\ moved_images = <<>>
    /\ results = <<>>

\* model(images) or model(images, labels): forward starts (line 31)
Call ==
    /\ bpc = "idle"
    /\ Len(results) < MaxCalls
    /\ labels' \in BOOLEAN
    /\ bpc' = "encode"
    /\ X' = <<>>
    /\ X_history' = <<>>
    /\ encoder_out' = <<>>
    /\ seed' = <<>>
    /\ lstm_out' = <<>>
    /\ Y' = <<>>
    /\ moved_images' = <<>>
    /\ UNCHANGED <<uvars, bottleneck, images, error, results>>

\* One iteration of the loop of lines 32-35
EncodePair ==
    /\ bpc = "encode"
    /\ Len(X) < NbPairs
    /\ LET i == Len(X)
           r == Encode(bottleneck.unet,
                       CatPair(Frame("image", i), Frame("image", i + 1)))
       IN  IF r.st = "ok"
           THEN /\ X' = Append(X, r.x)
                /\ X_history' = Append(X_history, r.x_history)
                /\ UNCHANGED <<bpc, error>>
           ELSE /\ bpc' = "raised"
                /\ error' = r.st
                /\ UNCHANGED <<X, X_history>>
    /\ UNCHANGED <<uvars, bottleneck, images, labels, encoder_out, seed,
                   lstm_out, Y, moved_images, results>>

\* Lines 36-40: the features are stacked and the two assertions checked
Stack ==
    /\ bpc = "encode"
    /\ Len(X) = NbPairs
    /\ error' = StackCheck(X, images.bs)
    /\ bpc' = IF error' = "" THEN "recurrent" ELSE "raised"
    /\ encoder_out' = IF error' = "" THEN X ELSE <<>>
    /\ UNCHANGED <<uvars, bottleneck, images, labels, X, X_history, seed,
                   lstm_out, Y, moved_images, results>>

\* Lines 43-47: h_0 and c_0 are drawn and the LSTM runs over the sequence
Recurrent ==
    /\ bpc = "recurrent"
    /\ \E h_0 \in Seeds, c_0 \in Seeds :
          /\ seed' = <<h_0, c_0>>
          /\ LET r == Lstm(bottleneck, encoder_out, h_0, c_0)
             IN  /\ lstm_out' = r.out
                 /\ bpc' = IF r.st = "ok" THEN "decode" ELSE "raised"
                 /\ error' = IF r.st = "ok" THEN "" ELSE r.st
    /\ UNCHANGED <<uvars, bottleneck, images, labels, X, X_history,
                   encoder_out, Y, moved_images, results>>

\* One element of the list of line 50; decode pops the stack it is given
DecodeStep ==
    /\ bpc = "decode"
    /\ Len(Y) < Len(lstm_out)
    /\ LET i == Len(Y)
           r == Decode(bottleneck.unet, lstm_out[i + 1],
                       Some(HistoryFor(X_history, i)))
       IN  /\ X_history' = [X_history EXCEPT ![i + 1] = r.x_history]
           /\ IF r.st = "ok"
              THEN /\ Y' = Append(Y, [ch |-> r.x.ch, shape |-> r.x.shape,
                                      id |-> [x |-> r.x.id,
                                              skips |-> [k \in 1..Len(r.cats) |->
                                                  <<r.cats[k].entry.id,
                                                    r.cats[k].entry.lvl>>]]])
                   /\ UNCHANGED <<bpc, error>>
              ELSE /\ bpc' = "raised"
                   /\ error' = r.st
                   /\ UNCHANGED Y
    /\ UNCHANGED <<uvars, bottleneck, images, labels, X, encoder_out, seed,
                   lstm_out, moved_images, results>>

\* Lines 51-55: the flow is stacked and every source image warped
WarpImages ==
    /\ bpc = "decode"
    /\ Len(Y) = Len(lstm_out)
    /\ moved_images' = WarpAll("image", Y)
    /\ bpc' = "warped"
    /\ UNCHANGED <<uvars, bottleneck, images, labels, error, X, X_history,
                   encoder_out, seed, lstm_out, Y, results>>

\* Lines 57-62: the labels are warped when given, and forward returns
Return ==
    /\ bpc = "warped"
    /\ results' = Append(results, [value |-> ForwardResult(moved_images, Y, labels),
                                   labels |-> labels, seed |-> seed])
    /\ bpc' = "idle"
    /\ UNCHANGED <<uvars, bottleneck, images, labels, error, X, X_history,
                   encoder_out, seed, lstm_out, Y, moved_images>>

BNext == Call \/ EncodePair \/ Stack \/ Recurrent \/ DecodeStep \/ WarpImages \/ Return

BSpec == BInit /\ [][BNext]_vars

\* ------------------------------------------------- properties of Unet2
\* The decoder levels that upsample and concatenate a popped entry.
ConcatLevels(net) ==
    {level \in 0..(Len(net.decoder) - 1) :
        Concatenates(net.half_res, net.nb_levels, level)}

RECURSIVE Product(_, _)
Product(s, k) == IF k = 0 THEN 1 ELSE s[k] * Product(s, k - 1)

\* The product of the pooling factors of the encoder's levels.
CumulativeFactor(net) == Product(net.pooling, Len(net.encoder))

Divisible(shape, k) == \A d \in 1..Len(shape) : shape[d] % k = 0

\* decode was called on the very stack encode returned
RoundTrip == pc \in {"decoded", "decode_raised"} /\ given = Some(enc.x_history)

C2_EncodeRejectsIndivisible ==
    (/\ pc \in {"encoded", "decoded", "decode_raised"}
     /\ \A l \in 1..Len(unet.encoder) : unet.pooling[l] = 2)
        => Divisible(args.inshape, Pow(2, Len(unet.encoder)))

C4_RoundTripShape ==
    (RoundTrip /\ ~unet.half_res
        /\ Divisible(args.inshape, CumulativeFactor(unet))) =>
        /\ pc = "decoded"
        /\ dec.x.shape = args.inshape
        /\ dec.x.ch = unet.final_nf

\* C9: decoder level L pops the activation of encoder level n-1-L, upsamples by
\* that encoder level's pooling factor, and concatenates tensors of equal
\* spatial shape, for every list of pooling factors.
C9_ReverseOrderMatchingFactors ==
    (RoundTrip /\ Divisible(args.inshape, CumulativeFactor(unet))) =>
        /\ dec.st # "RuntimeError: sizes of tensors must match"
        /\ \A k \in 1..Len(dec.cats) :
              LET c == dec.cats[k]
                  n == Len(unet.decoder)
              IN  /\ c.entry.lvl = n - 1 - c.level
                  /\ c.factor = unet.pooling[n - c.level]
                  /\ c.shape = c.entry.shape

\* C10: every decoder and remaining convolution was constructed with the channel
\* count of the tensor it receives: the bottleneck feature's at the first level,
\* the previous level's output width plus the width of the entry popped there
\* (nothing added where the level does not concatenate) afterwards; so no
\* convolution of encode or decode rejects its input's channel count.
C10_DecoderChannelsMatch ==
    /\ pc = "encode_raised" => enc.st # "RuntimeError: channels"
    /\ pc \in {"encoded", "decoded", "decode_raised"} =>
          LET n == Len(unet.decoder)
              h == enc.x_history
              \* channels of the tensor leaving decoder level l (1-based)
              leaving(l) ==
                  Last(unet.decoder[l]).out_channels
                  + (IF Concatenates(unet.half_res, unet.nb_levels, l - 1)
                     THEN h[Len(h) - Cardinality({j \in ConcatLevels(unet) : j < l - 1})].ch
                     ELSE 0)
          IN  /\ n >= 1 => unet.decoder[1][1].in_channels = enc.x.ch
              /\ \A l \in 2..n : unet.decoder[l][1].in_channels = leaving(l - 1)
              /\ (n >= 1 /\ unet.remaining # <<>>)
                    => unet.remaining[1].in_channels = leaving(n)
              /\ (n >= 1 /\ unet.remaining = <<>>) => unet.final_nf = leaving(n)
    /\ RoundTrip =>
          /\ dec.st # "RuntimeError: channels"
          /\ pc = "decoded" => dec.x.ch = unet.final_nf

\* C10: a complete round trip under half_res, two levels of different widths,
\* with remaining convolutions
C10_Witness ==
    /\ RoundTrip /\ pc = "decoded"
    /\ unet.half_res /\ unet.nb_levels = 3
    /\ unet.remaining # <<>>
    /\ Len(unet.decoder[1]) = 1
    /\ enc.x_history[2].ch # enc.x_history[3].ch

\* ------------------------------------------------- properties of Bottleneck
\* id of the tensor encode was given for pair i (0-based)
PairId(i) == <<<<"image", i>>, <<"image", i + 1>>>>

\* The call has passed or failed the checks of lines 36-40.
Checked ==
    bpc \in {"recurrent", "decode", "warped", "raised"}
    \/ (bpc = "idle" /\ results # <<>>)

\* The call entered the recurrent stage.
Entered == encoder_out # <<>>

\* C5: on images of a batch size other than 1, forward raises once the pairs
\* are encoded: nothing is drawn or run by the recurrent stage, nothing is
\* decoded, nothing is warped and nothing is returned.
C5_BatchNotOneAborts ==
    /\ [](images.bs # 1 =>
            /\ bpc \in {"idle", "encode", "raised"}
            /\ bpc = "raised" => error \in {"AssertionError: bs",
                                            "RuntimeError: torch.cat of an empty list"}
            /\ encoder_out = <<>> /\ seed = <<>> /\ lstm_out = <<>>
            /\ Y = <<>> /\ moved_images = <<>> /\ results = <<>>
            /\ \A i \in 1..Len(X_history) :
                  Len(X_history[i]) = bottleneck.unet.nb_levels)
    /\ [][(images.bs # 1 /\ bpc = "encode" /\ Len(X) = NbPairs)
             => bpc' = "raised"]_vars

\* C5: a call on a batch of two that raised at the batch-size assertion after
\* encoding 39 pairs
C5_Witness ==
    /\ images.bs = 2
    /\ bpc = "raised"
    /\ error = "AssertionError: bs"
    /\ Len(X) = RequiredT

\* C6 (as stated): forward enters the recurrent stage if and only if the
\* number of encoded pairs is the required one.
C6_RecurrentIffLength ==
    Checked => (Entered <=> NbPairs = RequiredT)

\* C6 (amended): forward enters the recurrent stage if and only if the number
\* of encoded pairs is 39 and the batch size is 1; otherwise it raises before
\* the recurrent stage; the sequence that enters is the encoded one, pair by
\* pair, neither truncated nor padded.
C6_RecurrentIffLengthAndBatch ==
    Checked =>
        /\ Entered <=> (NbPairs = RequiredT /\ images.bs = 1)
        /\ ~Entered => (bpc = "raised" /\ seed = <<>> /\ lstm_out = <<>>)
        /\ Entered =>
              /\ Len(encoder_out) = images.n - 1
              /\ \A i \in 1..Len(encoder_out) : encoder_out[i].id = PairId(i - 1)

\* C6: a call on 40 frames that entered the recurrent stage
C6_Witness ==
    /\ bpc = "recurrent"
    /\ Entered
    /\ images.n = RequiredT + 1

\* C7: of two calls on the same images that drew the same h_0 and c_0, one
\* with labels and one without, the first returns three elements and the
\* second two, with the same warped images and the same flow.
C7_LabelsChangeOnlyArity ==
    \A i, j \in 1..Len(results) :
        (results[i].labels /\ ~results[j].labels
            /\ results[i].seed = results[j].seed) =>
            /\ Len(results[i].value) = 3
            /\ Len(results[j].value) = 2
            /\ results[i].value[1] = results[j].value[1]
            /\ results[i].value[3] = results[j].value[2]

\* C7: two returned calls with the same h_0 and c_0, the first with labels
C7_Witness ==
    /\ Len(results) = 2
    /\ results[1].labels /\ ~results[2].labels
    /\ results[1].seed = results[2].seed

\* C8: a forward that returns on T+1 frames returns T warped images, T flow
\* fields and, with labels, T warped labels; flow i is the decode of recurrent
\* output step i with the stack of the encode of pair (i, i+1), every skip
\* entry included; warped image i and warped label i are frame i and label i
\* warped along flow i, so the last frame is never a source; and each stack is
\* popped by one decode only.
C8_IndexAligned ==
    /\ \A i \in 1..Len(Y) :
          /\ Y[i].id.x = lstm_out[i].id
          /\ lstm_out[i].id.t = i - 1
          /\ lstm_out[i].id.input = PairId(i - 1)
          /\ Len(Y[i].id.skips) = bottleneck.unet.nb_levels - 1
          /\ \A k \in 1..Len(Y[i].id.skips) :
                Y[i].id.skips[k] = <<PairId(i - 1), bottleneck.unet.nb_levels - 1 - k>>
    /\ bpc \in {"decode", "warped"} =>
          \A i \in 1..Len(X_history) :
              Len(X_history[i]) = IF i <= Len(Y) THEN 1 ELSE bottleneck.unet.nb_levels
    /\ \A r \in 1..Len(results) :
          LET v == results[r].value
              T == images.n - 1
              flow == v[Len(v)]
          IN  /\ Len(v) = IF results[r].labels THEN 3 ELSE 2
              /\ \A e \in 1..Len(v) : Len(v[e]) = T
              /\ \A i \in 1..T :
                    /\ flow[i].id.x.t = i - 1
                    /\ flow[i].id.x.seed = results[r].seed
                    /\ \A k \in 1..Len(flow[i].id.skips) :
                          flow[i].id.skips[k][1] = PairId(i - 1)
                    /\ flow[i].shape = images.shape
                    /\ v[1][i].id = [src |-> <<"image", i - 1>>, flow |-> flow[i].id]
                    /\ results[r].labels =>
                          v[2][i].id = [src |-> <<"label", i - 1>>, flow |-> flow[i].id]

\* C8: a returned call with labels, 39 warped labels long
C8_Witness ==
    /\ Len(results) >= 1
    /\ results[1].labels
    /\ Len(results[1].value[2]) = RequiredT
====
